---- MODULE Spec2Model ----
(***************************************************************************)
(* A model of the VGA text-mode console of rust_os: src/vga_buffer.rs (the *)
(* Writer over the memory-mapped Buffer at 0xb8000, the lazily constructed *)
(* WRITER behind a spin lock, _print) and src/main.rs (_start, panic).     *)
(*                                                                         *)
(* Bytes are the integers 0..255.  A ScreenChar is a record, the Buffer is *)
(* a function row -> col -> ScreenChar with the geometry of the source     *)
(* (25 rows of 80 cells).  The state space is kept finite by drawing the   *)
(* arguments of the calls from small sets of bytes and strings and by      *)
(* bounding the number of calls, print requests and interrupts.            *)
(*                                                                         *)
(* Specifications: Spec, the Writer as a component (its public methods     *)
(* called one at a time, each a single step); Steps, the same methods      *)
(* followed statement by statement, one access to the display memory per   *)
(* step; Console, the global WRITER used through _print by the normal      *)
(* context and an interrupt handler (ConsoleLive adds that the core keeps  *)
(* executing); Faults, Console with arguments whose formatting fails; and  *)
(* Boot, the entry point _start with a handler that prints.                *)
(***************************************************************************)
EXTENDS Integers, Sequences, FiniteSets, TLC

VARIABLES
    vga,      \* the memory at 0xb8000 seen as Buffer.chars
    writer,   \* the Writer's own fields: column_position, color_code
    last,     \* history: the last call, its argument, the Writer it was applied to
    nops,     \* history: number of calls made so far
    once,     \* WRITER: state of the one-time initialization of the lazy static
    locked,   \* WRITER: the lock flag of the spin::Mutex
    ctx,      \* per execution context: where it is in _print and what it prints
    irq_active,     \* the interrupt handler runs (the normal context is preempted)
    irqs,           \* history: number of interrupts taken
    log,            \* history: the requests in the order they got the lock
    issued,         \* history: per context, the requests in the order it made them
    constructions,  \* history: number of times the Writer was constructed
    frame,          \* the code followed statement by statement: where it is, its locals
    access          \* history: the accesses to the display memory made by that code

console == <<once, locked, ctx, irq_active, irqs, log, issued, constructions>>
steps == <<frame, access>>
vars == <<vga, writer, last, nops, console, steps>>

(***************************************************************************)
(* Bounds of the exploration.                                              *)
(***************************************************************************)
MaxOps == 2      \* calls made on the Writer
MaxPrints == 2   \* print requests of the normal context
MaxIrqs == 1     \* interrupts taken, each handler making one print request
MaxCalls == 1    \* calls followed statement by statement

(***************************************************************************)
(* Program constants.                                                      *)
(***************************************************************************)
BUFFER_HEIGHT == 25
BUFFER_WIDTH == 80

Black == 0
Blue == 1
LightGray == 7
LightCyan == 11
Yellow == 14
White == 15

Rows == 0 .. (BUFFER_HEIGHT - 1)
Cols == 0 .. (BUFFER_WIDTH - 1)

\* a | b on u8, bit by bit
RECURSIVE BitOr(_, _)
BitOr(a, b) ==
    IF a = 0 THEN b
    ELSE IF b = 0 THEN a
    ELSE (IF (a % 2 = 1) \/ (b % 2 = 1) THEN 1 ELSE 0) + 2 * BitOr(a \div 2, b \div 2)

\* a << n on u8: the bits shifted out are dropped
Shl8(a, n) == (a * (2 ^ n)) % 256

\* mutant: the nibbles swapped
ColorCode_new_swapped(foreground, background) == BitOr(Shl8(foreground, 4), background)

ColorCode_new(foreground, background) == BitOr(Shl8(background, 4), foreground)

\* mutant: every cell is made LightGray on Black
ScreenChar_gray(byte, color_code) == [ascii_character |-> byte, color_code |-> LightGray]

ScreenChar(byte, color_code) == [ascii_character |-> byte, color_code |-> color_code]

(***************************************************************************)
(* Writer.  self is [column_position, color_code, buffer]; every method    *)
(* returns the Writer after the call.                                      *)
(***************************************************************************)
\* mutant: the blank keeps the attribute the cell had
clear_row_keep_color(self, row) ==
    [self EXCEPT !.buffer[row] =
        [col \in Cols |-> [ascii_character |-> 32,
                           color_code |-> self.buffer[row][col].color_code]]]

clear_row(self, row) ==
    LET blank == ScreenChar(32, self.color_code)
    IN  [self EXCEPT !.buffer[row] = [col \in Cols |-> blank]]

\* mutant: the row loop stops one row early, at BUFFER_HEIGHT - 1
new_line_rows_short(chars) ==
    [row \in Rows |-> IF row + 1 < BUFFER_HEIGHT - 1 THEN chars[row + 1] ELSE chars[row]]

\* the row loop of new_line: for row = 1, 2, ..., BUFFER_HEIGHT - 1 every cell
\* of row `row` is read and written to the same column of row `row - 1`.  Row
\* `row` is read in pass `row` and overwritten only in pass `row + 1`, so every
\* row but the last ends up holding what the row below it held before the loop.
new_line_rows(chars) ==
    [row \in Rows |-> IF row + 1 < BUFFER_HEIGHT THEN chars[row + 1] ELSE chars[row]]

\* mutant: the last row is not cleared
new_line_no_clear(self) ==
    LET moved == [self EXCEPT !.buffer = new_line_rows(self.buffer)]
    IN  [moved EXCEPT !.column_position = 0]

new_line(self) ==
    LET moved == [self EXCEPT !.buffer = new_line_rows(self.buffer)]
        cleared == clear_row(moved, BUFFER_HEIGHT - 1)
    IN  [cleared EXCEPT !.column_position = 0]

\* mutant: the cursor is not advanced
write_byte_no_advance(self, byte) ==
    IF byte = 10 THEN new_line(self)
    ELSE LET s1 == IF self.column_position >= BUFFER_WIDTH THEN new_line(self) ELSE self
         IN  [s1 EXCEPT !.buffer[BUFFER_HEIGHT - 1][s1.column_position] =
                            ScreenChar(byte, s1.color_code)]

\* mutant: the byte is stored on the first row as well
write_byte_two_rows(self, byte) ==
    IF byte = 10 THEN new_line(self)
    ELSE LET s1 == IF self.column_position >= BUFFER_WIDTH THEN new_line(self) ELSE self
             character == ScreenChar(byte, s1.color_code)
         IN  [s1 EXCEPT !.buffer[BUFFER_HEIGHT - 1][s1.column_position] = character,
                        !.buffer[0][s1.column_position] = character,
                        !.column_position = s1.column_position + 1]

\* mutant: the line is wrapped as soon as it is full
write_byte_eager_wrap(self, byte) ==
    IF byte = 10 THEN new_line(self)
    ELSE LET s1 == [self EXCEPT !.buffer[BUFFER_HEIGHT - 1][self.column_position] =
                                    ScreenChar(byte, self.color_code),
                                !.column_position = self.column_position + 1]
         IN  IF s1.column_position >= BUFFER_WIDTH THEN new_line(s1) ELSE s1

write_byte(self, byte) ==
    IF byte = 10 THEN new_line(self)
    ELSE LET s1 == IF self.column_position >= BUFFER_WIDTH THEN new_line(self) ELSE self
             row == BUFFER_HEIGHT - 1
             col == s1.column_position
             character == ScreenChar(byte, s1.color_code)
         IN  [s1 EXCEPT !.buffer[row][col] = character,
                        !.column_position = col + 1]

\* mutant: the printable range reaches 0x7f
write_string_arm_del(byte) ==
    IF (byte >= 32 /\ byte <= 127) \/ byte = 10 THEN byte ELSE 254

\* the match of write_string: what is handed to write_byte for `byte`
write_string_arm(byte) ==
    IF (byte >= 32 /\ byte <= 126) \/ byte = 10 THEN byte ELSE 254

\* the for loop over s.bytes(): every byte goes through the match and on to
\* write_byte, one at a time and in order.  The string is split in halves, and
\* the first half's Writer is looked at before the second half starts, only to
\* keep the evaluation shallow: column_position is a usize, so the test is
\* always true.
RECURSIVE write_string(_, _)
write_string(self, s) ==
    IF Len(s) = 0 THEN self
    ELSE IF Len(s) = 1 THEN write_byte(self, write_string_arm(s[1]))
    ELSE LET half == Len(s) \div 2
             first == write_string(self, SubSeq(s, 1, half))
         IN  IF first.column_position >= 0
             THEN write_string(first, SubSeq(s, half + 1, Len(s)))
             ELSE first

\* mutant: the bytes go to write_byte as they are
RECURSIVE write_raw(_, _)
write_raw(self, s) ==
    IF Len(s) = 0 THEN self
    ELSE IF Len(s) = 1 THEN write_byte(self, s[1])
    ELSE LET half == Len(s) \div 2
             first == write_raw(self, SubSeq(s, 1, half))
         IN  IF first.column_position >= 0
             THEN write_raw(first, SubSeq(s, half + 1, Len(s)))
             ELSE first

write_str_raw(self, s) == [self |-> write_raw(self, s), result |-> "Ok"]

\* fmt::Write::write_str: the Writer after the call and the fmt::Result
write_str(self, s) == [self |-> write_string(self, s), result |-> "Ok"]

(***************************************************************************)
(* Inputs.                                                                 *)
(***************************************************************************)
HELLO == <<72, 101, 108, 108, 111, 44, 32, 87, 111, 114, 108, 100, 33>>

Letters(n) == [i \in 1 .. n |-> 65 + ((i - 1) % 26)]
Newlines(n) == [i \in 1 .. n |-> 10]

ByteInputs == {10, 32, 65, 126, 1}

StringInputs ==
    { HELLO,
      Letters(BUFFER_WIDTH),
      Letters(BUFFER_WIDTH + 1),
      Newlines(2),
      Newlines(BUFFER_HEIGHT),
      Newlines(BUFFER_HEIGHT - 1),
      <<65, 1, 127, 195, 169, 10, 66, 1>> }

StrInputs == { HELLO, <<195, 169, 10>> }

ColorInputs ==
    { ColorCode_new(Yellow, Black),
      ColorCode_new(LightCyan, Black),
      ColorCode_new(White, Blue) }

\* what the display memory may hold before the first write
BlankGrid(cc) == [row \in Rows |-> [col \in Cols |-> ScreenChar(32, cc)]]
BootGrid ==
    [row \in Rows |-> [col \in Cols |->
        ScreenChar(97 + ((row * 7 + col) % 26), ColorCode_new(LightGray, Black))]]

(***************************************************************************)
(* The Writer as a component: calls of its public methods, one at a time.  *)
(***************************************************************************)
Self == [column_position |-> writer.column_position,
         color_code |-> writer.color_code,
         buffer |-> vga]

Store(w) ==
    /\ writer' = [column_position |-> w.column_position, color_code |-> w.color_code]
    /\ vga' = w.buffer

Contexts == {"main", "irq"}
NoFrame == [pc |-> "none"]
NoAccess == [n |-> 0]
Idle == [pc |-> "idle", req |-> <<>>, todo |-> <<>>]

Init ==
    /\ once = "COMPLETE"
    /\ locked = FALSE
    /\ ctx = [c \in Contexts |-> Idle]
    /\ irq_active = FALSE
    /\ irqs = 0
    /\ log = <<>>
    /\ issued = [c \in Contexts |-> <<>>]
    /\ constructions = 1
    /\ \E cc \in ColorInputs :
         /\ writer = [column_position |-> 0, color_code |-> cc]
         /\ vga \in {BlankGrid(cc), BootGrid}
         /\ last = [op |-> "none", arg |-> <<>>, result |-> "none",
                    self |-> [column_position |-> 0, color_code |-> cc, buffer |-> <<>>]]
    /\ nops = 0
    /\ frame = NoFrame
    /\ access = NoAccess

WriteByte ==
    /\ nops < MaxOps
    /\ UNCHANGED <<console, steps>>
    /\ \E byte \in ByteInputs :
         /\ Store(write_byte(Self, byte))
         /\ last' = [op |-> "write_byte", arg |-> <<byte>>, result |-> "unit", self |-> Self]
    /\ nops' = nops + 1

WriteString ==
    /\ nops < MaxOps
    /\ UNCHANGED <<console, steps>>
    /\ \E s \in StringInputs :
         /\ Store(write_string(Self, s))
         /\ last' = [op |-> "write_string", arg |-> s, result |-> "unit", self |-> Self]
    /\ nops' = nops + 1

WriteStr ==
    /\ nops < MaxOps
    /\ UNCHANGED <<console, steps>>
    /\ \E s \in StrInputs :
         LET r == write_str(Self, s)
         IN  /\ Store(r.self)
             /\ last' = [op |-> "write_str", arg |-> s, result |-> r.result, self |-> Self]
    /\ nops' = nops + 1

Next == WriteByte \/ WriteString \/ WriteStr

Spec == Init /\ [][Next]_vars

(***************************************************************************)
(* The global console: WRITER, a lazily constructed Mutex<Writer>, and     *)
(* _print, called by the normal context and by an interrupt handler that   *)
(* preempts it on the one core.  A context spinning (on the lock, or on an *)
(* initialization another context has begun) takes no step.               *)
(***************************************************************************)
NoWriter == [uninit |-> TRUE]

\* what print!/println! hand to _print: the pieces write_fmt passes to write_str
PrintInputs ==
    { << <<72, 105>> >>,
      << <<111, 107>>, <<10>> >>,
      << <<195, 169, 33>> >> }

\* the piece of an argument whose fmt returns Err(fmt::Error): no byte of it
\* reaches write_str, and write_fmt returns the error
FmtError == <<-1>>

\* requests with an argument that fails to format: print!("Hi{}", x) and
\* print!("{}", x)
FailingInputs ==
    { << <<72, 105>>, FmtError >>,
      << FmtError >> }

\* mutant: the initialization runs on every access
once_must_run_always(status) == status \in {"INCOMPLETE", "COMPLETE"}

\* lazy_static: the access that finds the static not yet initialized runs the
\* initializer
once_must_run(status) == status = "INCOMPLETE"

\* mutant: the lock is taken whether it is free or not
lock_try_barge(flag) == TRUE

\* spin::Mutex::lock: the compare-exchange of the flag succeeds when it is clear
lock_try(flag) == flag = FALSE

\* the context the core executes
Running(c) == IF c = "irq" THEN irq_active ELSE ~irq_active

\* pieces that are used up are dropped: write_str has returned Ok(())
RECURSIVE DropEmpty(_)
DropEmpty(pieces) ==
    IF pieces = <<>> THEN <<>>
    ELSE IF Head(pieces) = <<>> THEN DropEmpty(Tail(pieces))
    ELSE pieces

ConsoleInit ==
    /\ vga = BootGrid
    /\ writer = NoWriter
    /\ last = [op |-> "none"]
    /\ nops = 0
    /\ once = "INCOMPLETE"
    /\ locked = FALSE
    /\ ctx = [c \in Contexts |-> Idle]
    /\ irq_active = FALSE
    /\ irqs = 0
    /\ log = <<>>
    /\ issued = [c \in Contexts |-> <<>>]
    /\ constructions = 0
    /\ frame = NoFrame
    /\ access = NoAccess

\* print!(...) / println!(...): _print is entered with the formatted arguments
CallPrint(c) ==
    /\ Running(c)
    /\ UNCHANGED steps
    /\ ctx[c].pc = "idle"
    /\ IF c = "irq" THEN Len(issued[c]) < irqs ELSE Len(issued[c]) < MaxPrints
    /\ \E req \in PrintInputs :
         /\ ctx' = [ctx EXCEPT ![c] = [pc |-> "deref", req |-> req, todo |-> req]]
         /\ issued' = [issued EXCEPT ![c] = Append(@, req)]
    /\ UNCHANGED <<vga, writer, last, nops, once, locked, irq_active, irqs, log,
                   constructions>>

\* WRITER is dereferenced: the first access begins the initialization, a later
\* one goes on to lock() once the initialization is complete
Deref(c) ==
    /\ Running(c)
    /\ UNCHANGED steps
    /\ ctx[c].pc = "deref"
    /\ \/ /\ once_must_run(once)
          /\ once' = "RUNNING"
          /\ ctx' = [ctx EXCEPT ![c].pc = "construct"]
       \/ /\ ~once_must_run(once)
          /\ once = "COMPLETE"
          /\ ctx' = [ctx EXCEPT ![c].pc = "lock"]
          /\ UNCHANGED once
    /\ UNCHANGED <<vga, writer, last, nops, locked, irq_active, irqs, log, issued,
                   constructions>>

\* the initializer: Mutex::new(Writer { column_position: 0, color_code: ..,
\* buffer: 0xb8000 })
Construct(c) ==
    /\ Running(c)
    /\ UNCHANGED steps
    /\ ctx[c].pc = "construct"
    /\ writer' = [column_position |-> 0, color_code |-> ColorCode_new(Yellow, Black)]
    /\ locked' = FALSE
    /\ once' = "COMPLETE"
    /\ constructions' = constructions + 1
    /\ ctx' = [ctx EXCEPT ![c].pc = "lock"]
    /\ UNCHANGED <<vga, last, nops, irq_active, irqs, log, issued>>

\* WRITER.lock(): the guard is obtained when the flag is clear
Lock(c) ==
    /\ Running(c)
    /\ UNCHANGED steps
    /\ ctx[c].pc = "lock"
    /\ lock_try(locked)
    /\ locked' = TRUE
    /\ log' = Append(log, [ctx |-> c, req |-> ctx[c].req])
    /\ ctx' = [ctx EXCEPT ![c].pc = "write"]
    /\ UNCHANGED <<vga, writer, last, nops, once, irq_active, irqs, issued,
                   constructions>>

\* write_fmt under the guard: write_str -> write_string, one byte of the
\* current piece per step
WriteStep(c) ==
    /\ Running(c)
    /\ UNCHANGED steps
    /\ ctx[c].pc = "write"
    /\ ctx[c].todo # <<>>
    /\ Head(ctx[c].todo) # FmtError
    /\ LET piece == Head(ctx[c].todo)
           rest == DropEmpty(<<Tail(piece)>> \o Tail(ctx[c].todo))
       IN  /\ Store(write_byte(Self, write_string_arm(Head(piece))))
           /\ ctx' = [ctx EXCEPT ![c].todo = rest]
    /\ UNCHANGED <<last, nops, once, locked, irq_active, irqs, log, issued,
                   constructions>>

\* mutant: _print returns with the guard still held
Unlock_keeps(c) ==
    /\ Running(c)
    /\ UNCHANGED steps
    /\ ctx[c].pc = "write"
    /\ ctx[c].todo = <<>>
    /\ ctx' = [ctx EXCEPT ![c] = Idle]
    /\ UNCHANGED <<vga, writer, last, nops, once, locked, irq_active, irqs, log, issued,
                   constructions>>

\* write_fmt has returned Ok(()): unwrap() passes and the guard is dropped
Unlock(c) ==
    /\ Running(c)
    /\ UNCHANGED steps
    /\ ctx[c].pc = "write"
    /\ ctx[c].todo = <<>>
    /\ locked' = FALSE
    /\ ctx' = [ctx EXCEPT ![c] = Idle]
    /\ UNCHANGED <<vga, writer, last, nops, once, irq_active, irqs, log, issued,
                   constructions>>

\* an interrupt (or fault) arrives: its handler runs until it returns
Interrupt ==
    /\ ~irq_active
    /\ UNCHANGED steps
    /\ irqs < MaxIrqs
    /\ irq_active' = TRUE
    /\ irqs' = irqs + 1
    /\ UNCHANGED <<vga, writer, last, nops, once, locked, ctx, log, issued,
                   constructions>>

\* the handler returns, whether or not it printed
Iret ==
    /\ irq_active
    /\ UNCHANGED steps
    /\ ctx["irq"].pc = "idle"
    /\ irq_active' = FALSE
    /\ UNCHANGED <<vga, writer, last, nops, once, locked, ctx, irqs, log, issued,
                   constructions>>

ConsoleNext ==
    \/ \E c \in Contexts :
          CallPrint(c) \/ Deref(c) \/ Construct(c) \/ Lock(c) \/ WriteStep(c) \/ Unlock(c)
    \/ Interrupt
    \/ Iret

Console == ConsoleInit /\ [][ConsoleNext]_vars

\* the core never stops executing the context it runs
ConsoleLive == Console /\ WF_vars(ConsoleNext)

(***************************************************************************)
(* The global console with formatting that may fail.  write_fmt returns    *)
(* the Err of an argument's fmt, unwrap() panics on it, and the panic      *)
(* handler is loop {}: nothing is unwound, so the guard of the statement   *)
(* is never dropped and _print never returns.                              *)
(***************************************************************************)
\* print!(...) with an argument whose fmt fails
CallPrintErr(c) ==
    /\ Running(c)
    /\ UNCHANGED steps
    /\ ctx[c].pc = "idle"
    /\ IF c = "irq" THEN Len(issued[c]) < irqs ELSE Len(issued[c]) < MaxPrints
    /\ \E req \in FailingInputs :
         /\ ctx' = [ctx EXCEPT ![c] = [pc |-> "deref", req |-> req, todo |-> req]]
         /\ issued' = [issued EXCEPT ![c] = Append(@, req)]
    /\ UNCHANGED <<vga, writer, last, nops, once, locked, irq_active, irqs, log,
                   constructions>>

\* mutant: the error is dropped and _print returns
Panic_ignored(c) ==
    /\ Running(c)
    /\ UNCHANGED steps
    /\ ctx[c].pc = "write"
    /\ ctx[c].todo # <<>>
    /\ Head(ctx[c].todo) = FmtError
    /\ locked' = FALSE
    /\ ctx' = [ctx EXCEPT ![c] = Idle]
    /\ UNCHANGED <<vga, writer, last, nops, once, irq_active, irqs, log, issued,
                   constructions>>

\* write_fmt has returned Err(fmt::Error): unwrap() panics and the context is
\* in the loop {} of the panic handler, the guard still held
Panic(c) ==
    /\ Running(c)
    /\ UNCHANGED steps
    /\ ctx[c].pc = "write"
    /\ ctx[c].todo # <<>>
    /\ Head(ctx[c].todo) = FmtError
    /\ ctx' = [ctx EXCEPT ![c].pc = "panic"]
    /\ UNCHANGED <<vga, writer, last, nops, once, locked, irq_active, irqs, log, issued,
                   constructions>>

FaultsNext ==
    \/ \E c \in Contexts :
          CallPrint(c) \/ Deref(c) \/ Construct(c) \/ Lock(c) \/ WriteStep(c) \/ Unlock(c)
    \/ \E c \in Contexts : CallPrintErr(c) \/ Panic(c)
    \/ Interrupt
    \/ Iret

Faults == ConsoleInit /\ [][FaultsNext]_vars

(***************************************************************************)
(* The entry point.  _start stores the greeting through a raw pointer to   *)
(* 0xb8000, two bytes per cell, and then loops for ever; it never touches  *)
(* WRITER.  A handler that preempts it may print through _print.           *)
(***************************************************************************)
\* *p.offset(offset) = value on the bytes of the display memory: cell
\* offset / 2 in row-major order, its ascii_character at the even offset and
\* its color_code at the odd one
poke(chars, offset, value) ==
    LET cell == offset \div 2
        row == cell \div BUFFER_WIDTH
        col == cell % BUFFER_WIDTH
    IN  IF offset % 2 = 0
        THEN [chars EXCEPT ![row][col].ascii_character = value]
        ELSE [chars EXCEPT ![row][col].color_code = value]

BootInit ==
    /\ vga = BootGrid
    /\ writer = NoWriter
    /\ last = [op |-> "none"]
    /\ nops = 0
    /\ once = "INCOMPLETE"
    /\ locked = FALSE
    /\ ctx = [c \in Contexts |-> Idle]
    /\ irq_active = FALSE
    /\ irqs = 0
    /\ log = <<>>
    /\ issued = [c \in Contexts |-> <<>>]
    /\ constructions = 0
    /\ frame = [pc |-> "byte", i |-> 0]
    /\ access = NoAccess

\* *vga_buffer.offset(i as isize * 2) = byte
start_byte ==
    /\ Running("main")
    /\ frame.pc = "byte"
    /\ vga' = poke(vga, frame.i * 2, HELLO[frame.i + 1])
    /\ frame' = [frame EXCEPT !.pc = "color"]
    /\ UNCHANGED <<writer, last, nops, console, access>>

\* *vga_buffer.offset(i as isize * 2 + 1) = 0xb, and on to the next byte of
\* HELLO, or to loop {} after the last one
start_color ==
    /\ Running("main")
    /\ frame.pc = "color"
    /\ vga' = poke(vga, frame.i * 2 + 1, 11)
    /\ frame' = [pc |-> IF frame.i + 1 < Len(HELLO) THEN "byte" ELSE "loop",
                 i |-> frame.i + 1]
    /\ UNCHANGED <<writer, last, nops, console, access>>

BootNext ==
    \/ start_byte
    \/ start_color
    \/ \E c \in {"irq"} :
          CallPrint(c) \/ Deref(c) \/ Construct(c) \/ Lock(c) \/ WriteStep(c) \/ Unlock(c)
    \/ Interrupt
    \/ Iret

Boot == BootInit /\ [][BootNext]_vars

(***************************************************************************)
(* The Writer's methods followed statement by statement, every access to   *)
(* the display memory a step of its own.  chars[row][col] is an index into *)
(* [[Volatile<ScreenChar>; BUFFER_WIDTH]; BUFFER_HEIGHT]: an index out of  *)
(* range panics, and the access is not made.                               *)
(***************************************************************************)
in_bounds(row, col) == row \in Rows /\ col \in Cols

\* mutant: the line is wrapped one byte late
write_byte_wraps_late(column_position) == column_position > BUFFER_WIDTH

\* mutant: the line is wrapped when its last column is still free
write_byte_wraps_early(column_position) == column_position >= BUFFER_WIDTH - 1

\* write_byte: if self.column_position >= BUFFER_WIDTH
write_byte_wraps(column_position) == column_position >= BUFFER_WIDTH

\* new_line: for row in 1..BUFFER_HEIGHT
new_line_first_row == 1

\* mutant: the loops nested the other way round, rows inside columns
next_cell_by_column(row, col) ==
    IF row + 1 < BUFFER_HEIGHT THEN <<row + 1, col>>
    ELSE IF col + 1 < BUFFER_WIDTH THEN <<1, col + 1>>
    ELSE <<BUFFER_HEIGHT, 0>>

\* mutant: the loops never move on
next_cell_stuck(row, col) == <<row, col>>

\* new_line: for row in .. { for col in 0..BUFFER_WIDTH { .. } }: the indices of
\* the next pass of the inner loop
next_cell(row, col) ==
    IF col + 1 < BUFFER_WIDTH THEN <<row, col + 1>> ELSE <<row + 1, 0>>

NoChar == ScreenChar(0, 0)
NoWrites == [row \in Rows |-> [col \in Cols |-> 0]]

\* the calls made: write_byte(b) and write_str(s)
Calls ==
    { [op |-> "write_byte", arg |-> <<10>>],
      [op |-> "write_byte", arg |-> <<65>>],
      [op |-> "write_str", arg |-> <<195, 65>>] }

\* the Writers a call may find: the constructed one on the screen as it was
\* left by the boot, and that one after text that ends one short of, and at,
\* the end of the line
StepWriters ==
    LET w0 == [column_position |-> 0,
               color_code |-> ColorCode_new(Yellow, Black),
               buffer |-> BootGrid]
    IN  { w0,
          write_string(w0, Letters(BUFFER_WIDTH - 1)),
          write_string(w0, Letters(BUFFER_WIDTH)) }

StepsInit ==
    /\ once = "COMPLETE"
    /\ locked = FALSE
    /\ ctx = [c \in Contexts |-> Idle]
    /\ irq_active = FALSE
    /\ irqs = 0
    /\ log = <<>>
    /\ issued = [c \in Contexts |-> <<>>]
    /\ constructions = 1
    /\ \E w \in StepWriters :
         /\ writer = [column_position |-> w.column_position, color_code |-> w.color_code]
         /\ vga = w.buffer
    /\ last = [op |-> "none", arg |-> <<>>, result |-> "none",
               self |-> [column_position |-> 0, color_code |-> 0, buffer |-> <<>>]]
    /\ nops = 0
    /\ frame = [pc |-> "idle", s |-> <<>>, byte |-> 0, row |-> 0, col |-> 0,
                character |-> NoChar, ret |-> "return"]
    /\ access = [n |-> 0, kind |-> "none", row |-> 0, col |-> 0, value |-> NoChar,
                 writes |-> NoWrites]

\* the access .read() of chars[row][col], made or refused by the index check
Reads(row, col) ==
    [access EXCEPT !.n = @ + 1, !.kind = "read", !.row = row, !.col = col,
                   !.value = IF in_bounds(row, col) THEN vga[row][col] ELSE NoChar]

\* the access .write(value) of chars[row][col], made or refused by the index
\* check
Writes(row, col, value) ==
    [access EXCEPT !.n = @ + 1, !.kind = "write", !.row = row, !.col = col,
                   !.value = value,
                   !.writes = IF in_bounds(row, col)
                              THEN [@ EXCEPT ![row][col] = @ + 1]
                              ELSE @]

\* write_byte returns: to its caller's caller, or to the loop of write_string
write_byte_returns ==
    /\ frame' = [frame EXCEPT !.pc = IF last.op = "write_byte" THEN "idle" ELSE "for_bytes"]
    /\ last' = IF last.op = "write_byte" THEN [last EXCEPT !.result = "unit"] ELSE last

\* a public method is called
call ==
    /\ frame.pc = "idle"
    /\ nops < MaxCalls
    /\ \E c \in Calls :
         /\ last' = [op |-> c.op, arg |-> c.arg, result |-> "none", self |-> Self]
         /\ frame' = IF c.op = "write_byte"
                     THEN [frame EXCEPT !.pc = "match", !.byte = c.arg[1]]
                     ELSE [frame EXCEPT !.pc = "for_bytes", !.s = c.arg]
    /\ nops' = nops + 1
    /\ access' = [n |-> 0, kind |-> "none", row |-> 0, col |-> 0, value |-> NoChar,
                  writes |-> NoWrites]
    /\ UNCHANGED <<vga, writer, console>>

\* write_string: for byte in s.bytes() { match byte { .. } }; after the last
\* byte write_str returns Ok(())
write_string_for ==
    /\ frame.pc = "for_bytes"
    /\ IF frame.s = <<>>
       THEN /\ frame' = [frame EXCEPT !.pc = "idle"]
            /\ last' = [last EXCEPT !.result = "Ok"]
       ELSE /\ frame' = [frame EXCEPT !.pc = "match",
                                      !.byte = write_string_arm(Head(frame.s)),
                                      !.s = Tail(frame.s)]
            /\ UNCHANGED last
    /\ UNCHANGED <<vga, writer, nops, console, access>>

\* write_byte: match byte { b'\n' => self.new_line(), byte => { if .. {
\* self.new_line(); } .. } }
write_byte_match ==
    /\ frame.pc = "match"
    /\ IF frame.byte = 10 \/ write_byte_wraps(writer.column_position)
       THEN /\ frame' = [frame EXCEPT !.pc = "read",
                                      !.row = new_line_first_row,
                                      !.col = 0,
                                      !.ret = IF frame.byte = 10 THEN "return" ELSE "store"]
            /\ access' = [n |-> 0, kind |-> "none", row |-> 0, col |-> 0,
                          value |-> NoChar, writes |-> NoWrites]
       ELSE /\ frame' = [frame EXCEPT !.pc = "store"]
            /\ UNCHANGED access
    /\ UNCHANGED <<vga, writer, last, nops, console>>

\* new_line: let character = self.buffer.chars[row][col].read()
new_line_read ==
    /\ frame.pc = "read"
    /\ access' = Reads(frame.row, frame.col)
    /\ frame' = IF in_bounds(frame.row, frame.col)
                THEN [frame EXCEPT !.pc = "write", !.character = vga[frame.row][frame.col]]
                ELSE [frame EXCEPT !.pc = "panicked"]
    /\ UNCHANGED <<vga, writer, last, nops, console>>

\* new_line: self.buffer.chars[row - 1][col].write(character), and on to the
\* next pass of the loops, or to clear_row(BUFFER_HEIGHT - 1) after the last
new_line_write ==
    /\ frame.pc = "write"
    /\ LET row == frame.row - 1
           col == frame.col
           nxt == next_cell(frame.row, frame.col)
       IN  /\ access' = Writes(row, col, frame.character)
           /\ IF in_bounds(row, col)
              THEN /\ vga' = [vga EXCEPT ![row][col] = frame.character]
                   /\ frame' = IF nxt[1] < BUFFER_HEIGHT
                               THEN [frame EXCEPT !.pc = "read", !.row = nxt[1], !.col = nxt[2]]
                               ELSE [frame EXCEPT !.pc = "clear",
                                                  !.row = BUFFER_HEIGHT - 1, !.col = 0]
              ELSE /\ frame' = [frame EXCEPT !.pc = "panicked"]
                   /\ UNCHANGED vga
    /\ UNCHANGED <<writer, last, nops, console>>

\* clear_row: for col in 0..BUFFER_WIDTH { self.buffer.chars[row][col].write(blank) }
clear_row_write ==
    /\ frame.pc = "clear"
    /\ LET blank == ScreenChar(32, writer.color_code)
       IN  /\ access' = Writes(frame.row, frame.col, blank)
           /\ IF in_bounds(frame.row, frame.col)
              THEN /\ vga' = [vga EXCEPT ![frame.row][frame.col] = blank]
                   /\ frame' = IF frame.col + 1 < BUFFER_WIDTH
                               THEN [frame EXCEPT !.col = frame.col + 1]
                               ELSE [frame EXCEPT !.pc = "reset"]
              ELSE /\ frame' = [frame EXCEPT !.pc = "panicked"]
                   /\ UNCHANGED vga
    /\ UNCHANGED <<writer, last, nops, console>>

\* new_line: self.column_position = 0, and back to write_byte
new_line_reset ==
    /\ frame.pc = "reset"
    /\ writer' = [writer EXCEPT !.column_position = 0]
    /\ IF frame.ret = "store"
       THEN /\ frame' = [frame EXCEPT !.pc = "store"]
            /\ UNCHANGED last
       ELSE write_byte_returns
    /\ UNCHANGED <<vga, nops, console, access>>

\* write_byte: self.buffer.chars[row][col].write(character) with row the last
\* row and col the cursor
write_byte_store ==
    /\ frame.pc = "store"
    /\ LET row == BUFFER_HEIGHT - 1
           col == writer.column_position
           character == ScreenChar(frame.byte, writer.color_code)
       IN  /\ access' = Writes(row, col, character)
           /\ IF in_bounds(row, col)
              THEN /\ vga' = [vga EXCEPT ![row][col] = character]
                   /\ frame' = [frame EXCEPT !.pc = "advance"]
              ELSE /\ frame' = [frame EXCEPT !.pc = "panicked"]
                   /\ UNCHANGED vga
    /\ UNCHANGED <<writer, last, nops, console>>

\* write_byte: self.column_position += 1
write_byte_advance ==
    /\ frame.pc = "advance"
    /\ writer' = [writer EXCEPT !.column_position = @ + 1]
    /\ write_byte_returns
    /\ UNCHANGED <<vga, nops, console, access>>

StepsNext ==
    \/ call
    \/ write_string_for
    \/ write_byte_match
    \/ new_line_read
    \/ new_line_write
    \/ clear_row_write
    \/ new_line_reset
    \/ write_byte_store
    \/ write_byte_advance

Steps == StepsInit /\ [][StepsNext]_vars


(***************************************************************************)
(* Properties of the Writer's methods.  Pre is the Writer a call was       *)
(* applied to, Self the Writer after it.                                   *)
(***************************************************************************)
Pre == last.self
Printable == 32 .. 126
AllIn(s, S) == \A i \in 1 .. Len(s) : s[i] \in S
Blank(cc) == [ascii_character |-> 32, color_code |-> cc]
BytesOf(chars) == {chars[row][col].ascii_character : row \in Rows, col \in Cols}

\* C1: write_byte of a printable byte b stores Cell{b, current attribute} in
\* the bottom row at the column the cursor had (column 0, after one scroll,
\* when the cursor was at BUFFER_WIDTH) and leaves the cursor one past it.
C1_WriteBytePrintable ==
    (last.op = "write_byte" /\ last.arg[1] \in Printable) =>
        LET b == last.arg[1]
            wrapped == Pre.column_position = BUFFER_WIDTH
            col == IF wrapped THEN 0 ELSE Pre.column_position
        IN  /\ vga[BUFFER_HEIGHT - 1][col] =
                    [ascii_character |-> b, color_code |-> Pre.color_code]
            /\ writer.column_position = col + 1
            /\ writer.color_code = Pre.color_code
            /\ wrapped =>
                    /\ \A row \in 0 .. (BUFFER_HEIGHT - 2) : vga[row] = Pre.buffer[row + 1]
                    /\ \A c \in 1 .. (BUFFER_WIDTH - 1) :
                           vga[BUFFER_HEIGHT - 1][c] = Blank(Pre.color_code)

\* a printable byte was written with the cursor at BUFFER_WIDTH, onto a full
\* bottom row
C1_Witness ==
    /\ last.op = "write_byte"
    /\ last.arg[1] \in Printable
    /\ Pre.column_position = BUFFER_WIDTH
    /\ Pre.buffer[BUFFER_HEIGHT - 1][BUFFER_WIDTH - 1].ascii_character # 32
    /\ writer.column_position = 1

\* C2: write_byte of the newline byte is one scroll-and-reset: every row moves
\* up by one (row 0 is lost), the bottom row becomes blank in the current
\* attribute whatever attributes it held, and the cursor returns to column 0.
C2_Newline ==
    (last.op = "write_byte" /\ last.arg = <<10>>) =>
        /\ \A row \in 0 .. (BUFFER_HEIGHT - 2) : vga[row] = Pre.buffer[row + 1]
        /\ \A col \in Cols : vga[BUFFER_HEIGHT - 1][col] = Blank(Pre.color_code)
        /\ writer.column_position = 0
        /\ writer.color_code = Pre.color_code

\* a newline written onto a grid whose bottom row held another attribute and
\* whose rows differ, with the cursor away from column 0
C2_Witness ==
    /\ last.op = "write_byte"
    /\ last.arg = <<10>>
    /\ Pre.column_position > 0
    /\ \E col \in Cols :
          Pre.buffer[BUFFER_HEIGHT - 1][col].color_code # Pre.color_code
    /\ Pre.buffer[0] # Pre.buffer[1]
    /\ vga[0] # Pre.buffer[0]
    /\ writer.column_position = 0

\* C3: write_string(s) is write_byte(f(b)) for each byte b of s in order, f
\* keeping printable ASCII and newline and sending every other byte to 0xFE;
\* a trailing non-printable byte is stored as 0xFE, and nothing is reported.
C3_f(b) == IF b \in (Printable \cup {10}) THEN b ELSE 254

\* write_byte(f(s[lo])), ..., write_byte(f(s[hi])) applied to w in that order
RECURSIVE C3_ByteWise(_, _, _, _)
C3_ByteWise(w, s, lo, hi) ==
    IF lo > hi THEN w
    ELSE IF lo = hi THEN write_byte(w, C3_f(s[lo]))
    ELSE LET mid == (lo + hi) \div 2
             first == C3_ByteWise(w, s, lo, mid)
         IN  IF first.column_position >= 0
             THEN C3_ByteWise(first, s, mid + 1, hi)
             ELSE first

C3_WriteString ==
    (last.op = "write_string") =>
        /\ Self = C3_ByteWise(Pre, last.arg, 1, Len(last.arg))
        /\ last.result = "unit"
        /\ (last.arg # <<>> /\ last.arg[Len(last.arg)] \notin (Printable \cup {10})) =>
               vga[BUFFER_HEIGHT - 1][writer.column_position - 1] =
                   [ascii_character |-> 254, color_code |-> Pre.color_code]

\* a string holding 0x01 and ending in a non-printable byte was written
C3_Witness ==
    /\ last.op = "write_string"
    /\ \E i \in 1 .. Len(last.arg) : last.arg[i] = 1
    /\ last.arg[Len(last.arg)] \notin (Printable \cup {10})
    /\ vga[BUFFER_HEIGHT - 1][writer.column_position - 1].ascii_character = 254
    /\ 1 \notin BytesOf(vga)

\* C4 (as amended): write_string and write_str add no display byte to the grid
\* other than printable ASCII and 0xFE; write_byte stores any byte but newline
\* as it is given.
C4_Filtered ==
    /\ (last.op \in {"write_string", "write_str"}) =>
           BytesOf(vga) \subseteq (BytesOf(Pre.buffer) \cup Printable \cup {254})
    /\ (last.op = "write_byte" /\ last.arg[1] # 10) =>
           vga[BUFFER_HEIGHT - 1][writer.column_position - 1].ascii_character = last.arg[1]

\* C4 (as claimed): whatever public write operations were called, every cell
\* holds a printable byte or 0xFE.
C4_Original ==
    \A row \in Rows : \A col \in Cols :
        vga[row][col].ascii_character \in (Printable \cup {254})

\* a formatted write of a high-bit byte put 0xFE, and not the byte, on the grid
C4_Witness ==
    /\ last.op = "write_str"
    /\ \E i \in 1 .. Len(last.arg) : last.arg[i] = 195
    /\ 254 \in BytesOf(vga)
    /\ 254 \notin BytesOf(Pre.buffer)
    /\ 195 \notin BytesOf(vga)

\* C5 (as amended): from column 0, BUFFER_WIDTH printable bytes fill the bottom
\* row, leave the cursor at BUFFER_WIDTH and scroll nothing; one more printable
\* byte scrolls exactly once, leaving the full line on the row above and only
\* the new byte on the bottom row, cursor at 1.
C5_DeferredWrap ==
    (last.op = "write_string" /\ Pre.column_position = 0 /\ AllIn(last.arg, Printable)) =>
        /\ Len(last.arg) = BUFFER_WIDTH =>
              /\ writer.column_position = BUFFER_WIDTH
              /\ \A row \in 0 .. (BUFFER_HEIGHT - 2) : vga[row] = Pre.buffer[row]
              /\ \A col \in Cols :
                    vga[BUFFER_HEIGHT - 1][col] =
                        [ascii_character |-> last.arg[col + 1], color_code |-> Pre.color_code]
        /\ Len(last.arg) = BUFFER_WIDTH + 1 =>
              /\ writer.column_position = 1
              /\ \A row \in 0 .. (BUFFER_HEIGHT - 3) : vga[row] = Pre.buffer[row + 1]
              /\ \A col \in Cols :
                    vga[BUFFER_HEIGHT - 2][col] =
                        [ascii_character |-> last.arg[col + 1], color_code |-> Pre.color_code]
              /\ vga[BUFFER_HEIGHT - 1][0] =
                    [ascii_character |-> last.arg[BUFFER_WIDTH + 1],
                     color_code |-> Pre.color_code]
              /\ \A col \in 1 .. (BUFFER_WIDTH - 1) :
                    vga[BUFFER_HEIGHT - 1][col] = Blank(Pre.color_code)

\* C5 (as claimed): from column 0, BUFFER_WIDTH printable bytes leave the
\* cursor at column 0 after exactly one scroll.
C5_Original ==
    (/\ last.op = "write_string"
     /\ Pre.column_position = 0
     /\ AllIn(last.arg, Printable)
     /\ Len(last.arg) = BUFFER_WIDTH) =>
        /\ writer.column_position = 0
        /\ \A row \in 0 .. (BUFFER_HEIGHT - 2) : vga[row] = Pre.buffer[row + 1]

\* a full line, and a full line and one byte, were written from column 0 onto
\* a grid whose rows differ
C5_Witness ==
    /\ last.op = "write_string"
    /\ Pre.column_position = 0
    /\ AllIn(last.arg, Printable)
    /\ Len(last.arg) = BUFFER_WIDTH
    /\ Pre.buffer[0] # Pre.buffer[1]
    /\ writer.column_position = BUFFER_WIDTH

C5_WitnessWrap ==
    /\ last.op = "write_string"
    /\ Pre.column_position = 0
    /\ AllIn(last.arg, Printable)
    /\ Len(last.arg) = BUFFER_WIDTH + 1
    /\ Pre.buffer[0] # Pre.buffer[1]
    /\ writer.column_position = 1

\* C6: on a blank grid, cursor at 0, attribute LightCyan on Black = 0x0B,
\* write_string("Hello, World!") puts the 13 bytes with attribute 0x0B at row
\* BUFFER_HEIGHT-1, columns 0..12, leaves the cursor at 13, scrolls nothing and
\* changes no other cell.
C6_Text == <<72, 101, 108, 108, 111, 44, 32, 87, 111, 114, 108, 100, 33>>

C6_HelloWorld ==
    /\ ColorCode_new(LightCyan, Black) = 11
    /\ (/\ last.op = "write_string"
        /\ last.arg = C6_Text
        /\ Pre.column_position = 0
        /\ Pre.color_code = 11
        /\ \A row \in Rows : \A col \in Cols : Pre.buffer[row][col].ascii_character = 32) =>
           /\ \A col \in 0 .. 12 :
                 vga[BUFFER_HEIGHT - 1][col] =
                     [ascii_character |-> C6_Text[col + 1], color_code |-> 11]
           /\ writer.column_position = 13
           /\ \A row \in Rows : \A col \in Cols :
                 (row # BUFFER_HEIGHT - 1 \/ col > 12) => vga[row][col] = Pre.buffer[row][col]

\* the greeting was written on a blank grid by a LightCyan-on-Black writer
C6_Witness ==
    /\ last.op = "write_string"
    /\ last.arg = C6_Text
    /\ Pre.column_position = 0
    /\ Pre.color_code = 11
    /\ \A row \in Rows : \A col \in Cols : Pre.buffer[row][col].ascii_character = 32
    /\ vga[BUFFER_HEIGHT - 1][12].ascii_character = 33

\* C7: k consecutive newlines (1 <= k <= BUFFER_HEIGHT) leave the cursor at 0,
\* the bottom k rows blank in the current attribute and the rows above them
\* holding what was k rows below; BUFFER_HEIGHT newlines blank the whole grid.
C7_Newlines ==
    (last.op = "write_string" /\ last.arg # <<>> /\ AllIn(last.arg, {10})
        /\ Len(last.arg) <= BUFFER_HEIGHT) =>
        LET k == Len(last.arg)
        IN  /\ writer.column_position = 0
            /\ \A row \in (BUFFER_HEIGHT - k) .. (BUFFER_HEIGHT - 1) : \A col \in Cols :
                  vga[row][col] = Blank(Pre.color_code)
            /\ \A row \in 0 .. (BUFFER_HEIGHT - 1 - k) : vga[row] = Pre.buffer[row + k]
            /\ k = BUFFER_HEIGHT => vga = BlankGrid(Pre.color_code)

\* BUFFER_HEIGHT newlines were written onto a grid with no blank cell, in
\* another attribute, with the cursor away from column 0
C7_Witness ==
    /\ last.op = "write_string"
    /\ last.arg = Newlines(BUFFER_HEIGHT)
    /\ Pre.column_position > 0
    /\ \A row \in Rows : \A col \in Cols : Pre.buffer[row][col] # Blank(Pre.color_code)
    /\ vga = BlankGrid(Pre.color_code)

\* fewer newlines than rows: a row that is not blank remains
C7_WitnessPartial ==
    /\ last.op = "write_string"
    /\ last.arg = Newlines(BUFFER_HEIGHT - 1)
    /\ vga[0] = Pre.buffer[BUFFER_HEIGHT - 1]
    /\ \A col \in Cols : vga[0][col] # Blank(Pre.color_code)

\* C14: a write_byte of a byte other than newline that finds the cursor left of
\* BUFFER_WIDTH changes the cell (BUFFER_HEIGHT-1, cursor) and nothing else of
\* the grid, and not the attribute; and whatever is called, a cell above the
\* last row changes only when the call scrolls: it holds a newline, or it goes
\* past the end of the line.
C14_Scrolls ==
    IF last.op = "write_byte"
    THEN last.arg[1] = 10 \/ Pre.column_position = BUFFER_WIDTH
    ELSE \/ \E i \in 1 .. Len(last.arg) : last.arg[i] = 10
         \/ Pre.column_position + Len(last.arg) > BUFFER_WIDTH

C14_AppendsAtLastRow ==
    /\ (last.op = "write_byte" /\ last.arg[1] # 10 /\ Pre.column_position < BUFFER_WIDTH) =>
          /\ vga[BUFFER_HEIGHT - 1][Pre.column_position] =
                 [ascii_character |-> last.arg[1], color_code |-> Pre.color_code]
          /\ \A row \in Rows : \A col \in Cols :
                (row # BUFFER_HEIGHT - 1 \/ col # Pre.column_position) =>
                    vga[row][col] = Pre.buffer[row][col]
          /\ writer.color_code = Pre.color_code
    /\ (last.op # "none" /\ \E row \in 0 .. (BUFFER_HEIGHT - 2) : vga[row] # Pre.buffer[row]) =>
          C14_Scrolls

\* the byte 0x01 was written in the middle of the last row, over another cell
C14_Witness ==
    /\ last.op = "write_byte"
    /\ last.arg = <<1>>
    /\ Pre.column_position \in 1 .. (BUFFER_WIDTH - 1)
    /\ vga[BUFFER_HEIGHT - 1][Pre.column_position] #
           Pre.buffer[BUFFER_HEIGHT - 1][Pre.column_position]
    /\ vga[0] = Pre.buffer[0]

\* C18: the grid is the picture of a list of lines.  The bytes fed, those of
\* a string after the filter, are cut into lines at every newline and before a
\* byte that finds BUFFER_WIDTH bytes on its line; the last row shows the line
\* being written, row BUFFER_HEIGHT-1-k the k-th last of the finished lines,
\* each padded with blanks, a row without a line is blank, and the cursor is
\* the length of the line being written.
C18_Feed(lines, b) ==
    IF b = 10 THEN [done |-> Append(lines.done, lines.cur), cur |-> <<>>]
    ELSE IF Len(lines.cur) = BUFFER_WIDTH
         THEN [done |-> Append(lines.done, lines.cur), cur |-> <<b>>]
         ELSE [done |-> lines.done, cur |-> Append(lines.cur, b)]

RECURSIVE C18_Lines(_, _, _, _)
C18_Lines(lines, s, lo, hi) ==
    IF lo > hi THEN lines
    ELSE IF lo = hi THEN C18_Feed(lines, s[lo])
    ELSE LET mid == (lo + hi) \div 2
             first == C18_Lines(lines, s, lo, mid)
         IN  IF Len(first.cur) >= 0
             THEN C18_Lines(first, s, mid + 1, hi)
             ELSE first

C18_Stream ==
    IF last.op = "write_byte" THEN last.arg
    ELSE [i \in 1 .. Len(last.arg) |-> C3_f(last.arg[i])]

C18_Row(lines, row) ==
    LET k == BUFFER_HEIGHT - 1 - row
    IN  IF k = 0 THEN lines.cur
        ELSE IF k <= Len(lines.done) THEN lines.done[Len(lines.done) - k + 1]
        ELSE <<>>

C18_LineList ==
    (/\ last.op \in {"write_string", "write_str", "write_byte"}
     /\ last.op = "write_byte" => last.arg[1] \in (Printable \cup {10})
     /\ Pre.column_position = 0
     /\ Pre.buffer = BlankGrid(Pre.color_code)) =>
        LET stream == C18_Stream
            lines == C18_Lines([done |-> <<>>, cur |-> <<>>], stream, 1, Len(stream))
        IN  /\ writer.column_position = Len(lines.cur)
            /\ \A row \in Rows : \A col \in Cols :
                  LET line == C18_Row(lines, row)
                  IN  vga[row][col] =
                          [ascii_character |-> IF col < Len(line) THEN line[col + 1] ELSE 32,
                           color_code |-> Pre.color_code]

\* a line and one byte more were fed to a Writer on a blank grid: one line is
\* finished, on the row above the last
C18_Witness ==
    /\ last.op = "write_string"
    /\ last.arg = Letters(BUFFER_WIDTH + 1)
    /\ Pre.column_position = 0
    /\ Pre.buffer = BlankGrid(Pre.color_code)
    /\ writer.column_position = 1
    /\ vga[BUFFER_HEIGHT - 2][BUFFER_WIDTH - 1].ascii_character = 66

\* bytes that are not printable and a newline in the middle
C18_WitnessFiltered ==
    /\ last.op = "write_string"
    /\ last.arg = <<65, 1, 127, 195, 169, 10, 66, 1>>
    /\ Pre.column_position = 0
    /\ Pre.buffer = BlankGrid(Pre.color_code)
    /\ writer.column_position = 2
    /\ vga[BUFFER_HEIGHT - 2][4].ascii_character = 254

(***************************************************************************)
(* Properties of the global console.                                       *)
(***************************************************************************)
RECURSIVE Flat(_)
Flat(pieces) == IF pieces = <<>> THEN <<>> ELSE Head(pieces) \o Flat(Tail(pieces))

\* the bytes of its request that context c has passed to the Writer
Consumed(c) ==
    LET all == Flat(ctx[c].req)
    IN  SubSeq(all, 1, Len(all) - Len(Flat(ctx[c].todo)))

\* the bytes of the requests in the order they got the lock, whole requests but
\* for the one in progress
RECURSIVE SerialBytes(_)
SerialBytes(i) ==
    IF i > Len(log) THEN <<>>
    ELSE (IF i = Len(log) /\ ctx[log[i].ctx].pc = "write"
          THEN Consumed(log[i].ctx)
          ELSE Flat(log[i].req)) \o SerialBytes(i + 1)

\* the requests of context c in the order they got the lock
Acquired(c) == SelectSeq(log, LAMBDA e : e.ctx = c)

Constructed ==
    [column_position |-> 0, color_code |-> ColorCode_new(Yellow, Black), buffer |-> BootGrid]

\* C8: print requests of the two contexts never interleave their writes: at
\* most one context is inside its write, only under the lock, and the grid and
\* cursor are always what the requests give when run whole, one after the other,
\* in the order they got the lock, an order that keeps each context's own order.
C8_Serialized ==
    /\ Cardinality({c \in Contexts : ctx[c].pc = "write"}) <= 1
    /\ locked <=> (\E c \in Contexts : ctx[c].pc = "write")
    /\ (once # "COMPLETE") => (log = <<>> /\ vga = BootGrid)
    /\ (once = "COMPLETE") => (Self = write_string(Constructed, SerialBytes(1)))
    /\ \A c \in Contexts :
          LET got == Acquired(c)
          IN  /\ Len(got) <= Len(issued[c])
              /\ \A i \in 1 .. Len(got) : got[i].req = issued[c][i]
              /\ Len(got) < Len(issued[c]) =>
                    /\ Len(got) = Len(issued[c]) - 1
                    /\ ctx[c].pc \in {"deref", "construct", "lock"}

\* a request of the handler ran between two requests of the normal context,
\* and all three are complete
C8_Witness ==
    /\ Len(log) = 3
    /\ log[1].ctx = "main"
    /\ log[2].ctx = "irq"
    /\ log[3].ctx = "main"
    /\ ~locked
    /\ \A c \in Contexts : ctx[c].pc = "idle"
    /\ ~irq_active

\* C9: a request that waits for the guard gets it and completes, also when it
\* is made by a handler that preempted a request holding the guard.
C9_AcquireEventually ==
    \A c \in Contexts :
        (ctx[c].pc = "lock") ~> (ctx[c].pc = "idle")

\* the state C9 excludes: the handler waits for the guard held by the request
\* it preempted
C9_Stuck ==
    /\ irq_active
    /\ ctx["irq"].pc = "lock"
    /\ locked
    /\ ctx["main"].pc = "write"

\* C10: the Writer is constructed once, by the first access, with cursor 0,
\* the default attribute and the grid as it was; no later access, of either
\* context, constructs it again or takes the cursor back.
C10_ConstructedOnce ==
    /\ constructions <= 1
    /\ (once = "COMPLETE") <=> (constructions = 1)
    /\ (constructions = 0) <=> (writer = NoWriter)
    /\ (constructions = 1 /\ log = <<>>) =>
          /\ writer = [column_position |-> 0, color_code |-> ColorCode_new(Yellow, Black)]
          /\ vga = BootGrid
    /\ (constructions >= 1 /\ SerialBytes(1) # <<>>) =>
          LET bytes == SerialBytes(1)
              b == bytes[Len(bytes)]
          IN  IF b = 10 THEN writer.column_position = 0
              ELSE /\ writer.column_position > 0
                   /\ vga[BUFFER_HEIGHT - 1][writer.column_position - 1].ascii_character
                          \in {b, 254}

\* the handler made the first access and constructed the Writer; the normal
\* context printed after it, on the same Writer
C10_Witness ==
    /\ constructions = 1
    /\ Len(log) = 2
    /\ log[1].ctx = "irq"
    /\ log[2].ctx = "main"
    /\ ctx["main"].pc = "idle"
    /\ writer.column_position > 2

\* C20 (as amended): the attribute of WRITER is the one it is constructed
\* with, Yellow on Black = 0x0E, background in the high nibble and foreground in
\* the low one, in every state; every cell the console makes, a byte at the
\* cursor or a blank of a scroll, carries it.  The cells a scroll moves up keep
\* the attribute they have: a cell of the screen as the boot left it stays
\* LightGray on Black on its way up (n rows up after n scrolls).
C20_AttributeFixed ==
    /\ ColorCode_new(Yellow, Black) = 14
    /\ 14 \div 16 = Black
    /\ 14 % 16 = Yellow
    /\ (once = "COMPLETE") => writer.color_code = 14
    /\ (once # "COMPLETE") => writer = NoWriter
    /\ \E n \in 0 .. BUFFER_HEIGHT :
          \A row \in Rows :
              \/ (row + n < BUFFER_HEIGHT /\ vga[row] = BootGrid[row + n])
              \/ \A col \in Cols :
                    \/ vga[row][col].color_code = 14
                    \/ (row + n < BUFFER_HEIGHT /\ vga[row][col] = BootGrid[row + n][col])

\* C20 (as claimed): every cell stored through the console carries 0x0E, so a
\* cell that is not what the boot left in its place does.
C20_Original ==
    \A row \in Rows : \A col \in Cols :
        (vga[row][col] # BootGrid[row][col]) => vga[row][col].color_code = 14

\* println!("ok") has scrolled the screen the boot left: "ok" and the blank row
\* are Yellow on Black, the rows moved up are not
C20_Witness ==
    /\ once = "COMPLETE"
    /\ Len(log) = 1
    /\ ctx[log[1].ctx].pc = "idle"
    /\ vga[BUFFER_HEIGHT - 2][0] = [ascii_character |-> 111, color_code |-> 14]
    /\ vga[BUFFER_HEIGHT - 1][0] = [ascii_character |-> 32, color_code |-> 14]
    /\ vga[0] = BootGrid[1]
    /\ vga[0][0].color_code = 7

(***************************************************************************)
(* Properties of the global console when formatting may fail.              *)
(***************************************************************************)
C16_Fails(req) == \E i \in 1 .. Len(req) : req[i] = FmtError

\* the bytes passed to the Writer, request by request in the order of the lock;
\* the last request may be under way, or stopped by a panic
RECURSIVE C16_Bytes(_)
C16_Bytes(i) ==
    IF i > Len(log) THEN <<>>
    ELSE (IF i = Len(log) /\ ctx[log[i].ctx].pc \in {"write", "panic"}
          THEN Consumed(log[i].ctx)
          ELSE Flat(log[i].req)) \o C16_Bytes(i + 1)

\* C16: a request with an argument that fails to format never returns to its
\* caller: it is the last request its context makes, the context is never idle
\* again, and once the error is met its only step is into the panic handler,
\* where it stays.  _print hands nothing back when it returns.  What the
\* request wrote before the error is on the grid, and stays.
C16_FmtErrorFatal ==
    /\ [](\A c \in Contexts :
             /\ \A i \in 1 .. Len(issued[c]) :
                   C16_Fails(issued[c][i]) => (i = Len(issued[c]) /\ ctx[c].pc # "idle")
             /\ (ctx[c].pc = "idle") => ctx[c] = Idle
             /\ (ctx[c].pc = "panic") =>
                   /\ C16_Fails(ctx[c].req)
                   /\ Head(ctx[c].todo) = FmtError
                   /\ Self = write_string(Constructed, C16_Bytes(1)))
    /\ [][\A c \in Contexts :
             /\ (ctx[c].pc = "write" /\ ctx[c].todo # <<>> /\ Head(ctx[c].todo) = FmtError
                    /\ ctx'[c] # ctx[c]) => ctx'[c].pc = "panic"
             /\ (ctx[c].pc = "panic") => (ctx'[c] = ctx[c] /\ vga' = vga /\ writer' = writer)
         ]_vars

\* print!("Hi{}", x) has written "Hi" and panicked on x, after another request
C16_Witness ==
    /\ ctx["main"].pc = "panic"
    /\ ctx["main"].req = << <<72, 105>>, FmtError >>
    /\ Len(log) = 2
    /\ vga[BUFFER_HEIGHT - 1][writer.column_position - 2].ascii_character = 72
    /\ vga[BUFFER_HEIGHT - 1][writer.column_position - 1].ascii_character = 105
    /\ irq_active

\* C19: the guard is held exactly while a request is between its lock() and its
\* return: by one request at most, never when every context is outside _print,
\* and a request that returns has dropped it.  (A request that panics does not
\* return, and keeps it.)
C19_GuardReleased ==
    /\ locked <=> (\E c \in Contexts : ctx[c].pc \in {"write", "panic"})
    /\ Cardinality({c \in Contexts : ctx[c].pc \in {"write", "panic"}}) <= 1
    /\ (\A c \in Contexts : ctx[c].pc = "idle") => ~locked
    /\ (~irq_active /\ ctx["main"].pc = "idle") => ~locked

\* three requests, of both contexts, have returned and the guard is free
C19_Witness ==
    /\ Len(log) = 3
    /\ \A c \in Contexts : ctx[c].pc = "idle"
    /\ \E i \in 1 .. 3 : log[i].ctx = "irq"
    /\ ~irq_active
    /\ ~locked

(***************************************************************************)
(* Properties of the program as a whole.                                   *)
(***************************************************************************)
\* C11: every store to a cell of the grid at 0xb8000 is made by a context that
\* holds the guard of WRITER: the grid changes only in a step of the running
\* context while it is inside its write under the lock.  The stores of _start
\* are not: it holds no guard.
C11_GuardedWrites ==
    [][(vga' # vga) =>
          (locked /\ \E c \in Contexts : Running(c) /\ ctx[c].pc = "write")]_vars

\* _start has stored its greeting on row 0 without ever taking the lock, after
\* a handler printed under it
C11_Unguarded ==
    /\ frame.pc = "loop"
    /\ \A i \in 1 .. Len(HELLO) :
          vga[0][i - 1] = [ascii_character |-> HELLO[i], color_code |-> 11]
    /\ Len(log) = 1
    /\ log[1].ctx = "irq"
    /\ ctx["main"] = Idle

(***************************************************************************)
(* Properties of the Writer's methods followed statement by statement.     *)
(***************************************************************************)
\* an upper bound of the statements a call still has to execute: those of the
\* byte in hand, and a full write_byte with a scroll for every byte to come
PerByte == 2 * (BUFFER_HEIGHT - 1) * BUFFER_WIDTH + BUFFER_WIDTH + 7

StepsLeft ==
    LET moves == (BUFFER_HEIGHT - 1 - frame.row) * BUFFER_WIDTH + (BUFFER_WIDTH - frame.col)
        here == CASE frame.pc = "for_bytes" -> 1
                  [] frame.pc = "match" -> PerByte - 1
                  [] frame.pc = "read" -> 2 * moves + BUFFER_WIDTH + 5
                  [] frame.pc = "write" -> 2 * moves + BUFFER_WIDTH + 4
                  [] frame.pc = "clear" -> (BUFFER_WIDTH - frame.col) + 4
                  [] frame.pc = "reset" -> 4
                  [] frame.pc = "store" -> 3
                  [] frame.pc = "advance" -> 2
                  [] OTHER -> 0
    IN  Len(frame.s) * PerByte + here

\* C12: write_byte, and write_str through write_string, are total: a call never
\* panics, a call that has begun always has a next statement to execute and
\* fewer statements left after it (so it returns), and write_str returns
\* Ok(()), so that the unwrap() of _print has nothing to fail on.
C12_Total ==
    /\ [](/\ frame.pc # "panicked"
          /\ (frame.pc = "idle" /\ last.op = "write_str") => last.result = "Ok"
          /\ frame.pc # "idle" => ENABLED StepsNext)
    /\ [][frame.pc # "idle" => (StepsLeft' < StepsLeft /\ StepsLeft' >= 0)]_vars

\* a write_str of a byte that is not printable and one that is has returned
\* Ok(()), both bytes stored
C12_Witness ==
    /\ frame.pc = "idle"
    /\ last.op = "write_str"
    /\ last.result = "Ok"
    /\ Pre.column_position = 0
    /\ writer.column_position = 2
    /\ vga[BUFFER_HEIGHT - 1][0].ascii_character = 254
    /\ vga[BUFFER_HEIGHT - 1][1].ascii_character = 65

\* C13: the cursor is always in 0 .. BUFFER_WIDTH, and every access the Writer
\* makes addresses a cell of the grid: the store of write_byte is never reached
\* with the cursor at BUFFER_WIDTH, the row loop reads rows 1 .. BUFFER_HEIGHT-1
\* only and writes rows 0 .. BUFFER_HEIGHT-2 only.
C13_InBounds ==
    /\ writer.column_position \in 0 .. BUFFER_WIDTH
    /\ access.kind # "none" =>
          /\ access.row \in 0 .. (BUFFER_HEIGHT - 1)
          /\ access.col \in 0 .. (BUFFER_WIDTH - 1)
    /\ frame.pc = "store" => writer.column_position < BUFFER_WIDTH
    /\ frame.pc = "read" =>
          /\ frame.row \in 1 .. (BUFFER_HEIGHT - 1)
          /\ frame.col \in 0 .. (BUFFER_WIDTH - 1)
    /\ frame.pc = "write" =>
          /\ frame.row - 1 \in 0 .. (BUFFER_HEIGHT - 2)
          /\ frame.col \in 0 .. (BUFFER_WIDTH - 1)
    /\ frame.pc = "clear" =>
          /\ frame.row = BUFFER_HEIGHT - 1
          /\ frame.col \in 0 .. (BUFFER_WIDTH - 1)

\* a byte found the cursor at BUFFER_WIDTH: before it is stored the scroll is
\* under way, and has just written the last cell of row 0
C13_Witness ==
    /\ frame.ret = "store"
    /\ frame.byte # 10
    /\ Pre.column_position = BUFFER_WIDTH
    /\ writer.column_position = BUFFER_WIDTH
    /\ access.kind = "write"
    /\ access.row = 0
    /\ access.col = BUFFER_WIDTH - 1

\* C15: the accesses of one new_line come in one order.  Access n, for n up to
\* 2 * (BUFFER_HEIGHT-1) * BUFFER_WIDTH, belongs to move k = (n-1) / 2, of cell
\* (1 + k / BUFFER_WIDTH, k % BUFFER_WIDTH): the read of that cell when n is odd,
\* the write of the value read to the cell above it when n is even.  The next
\* BUFFER_WIDTH accesses write the blank to row BUFFER_HEIGHT-1, columns
\* ascending.  No cell is written twice, the cursor keeps its value until the
\* last access is made, and the rows end up one higher, none lost but row 0.
C15_Moves == (BUFFER_HEIGHT - 1) * BUFFER_WIDTH

C15_AccessOrder ==
    (frame.pc \in {"read", "write", "clear", "reset"}) =>
        LET n == access.n
            k == (n - 1) \div 2
            r == 1 + (k \div BUFFER_WIDTH)
            c == k % BUFFER_WIDTH
            j == n - 2 * C15_Moves - 1
        IN  /\ n \in 0 .. (2 * C15_Moves + BUFFER_WIDTH)
            /\ (n < 2 * C15_Moves) => frame.pc = (IF n % 2 = 0 THEN "read" ELSE "write")
            /\ (n >= 2 * C15_Moves /\ n < 2 * C15_Moves + BUFFER_WIDTH) => frame.pc = "clear"
            /\ (n = 2 * C15_Moves + BUFFER_WIDTH) => frame.pc = "reset"
            /\ (n >= 1 /\ n <= 2 * C15_Moves /\ n % 2 = 1) =>
                  /\ access.kind = "read" /\ access.row = r /\ access.col = c
                  /\ access.value = vga[r][c]
                  /\ frame.character = access.value
            /\ (n >= 1 /\ n <= 2 * C15_Moves /\ n % 2 = 0) =>
                  /\ access.kind = "write" /\ access.row = r - 1 /\ access.col = c
                  /\ access.value = frame.character
                  /\ access.value = vga[r][c]
                  /\ vga[r - 1][c] = access.value
            /\ (n > 2 * C15_Moves) =>
                  /\ access.kind = "write" /\ access.row = BUFFER_HEIGHT - 1 /\ access.col = j
                  /\ access.value = Blank(writer.color_code)
                  /\ vga[BUFFER_HEIGHT - 1][j] = access.value
            /\ (access.kind = "write") => access.writes[access.row][access.col] = 1
            /\ (frame.ret = "store") => writer.column_position = BUFFER_WIDTH
            /\ (last.op = "write_byte") =>
                  /\ writer.column_position = Pre.column_position
                  /\ (frame.pc = "reset") =>
                        /\ \A row \in 0 .. (BUFFER_HEIGHT - 2) : vga[row] = Pre.buffer[row + 1]
                        /\ \A col \in Cols :
                              /\ vga[BUFFER_HEIGHT - 1][col] = Blank(Pre.color_code)
                              /\ \A row \in Rows : access.writes[row][col] = 1

\* a newline has made all the accesses of its scroll, and the cursor, away
\* from column 0, has not been reset yet
C15_Witness ==
    /\ frame.pc = "reset"
    /\ last.op = "write_byte"
    /\ last.arg = <<10>>
    /\ access.n = 2 * C15_Moves + BUFFER_WIDTH
    /\ Pre.column_position = BUFFER_WIDTH - 1
    /\ writer.column_position = BUFFER_WIDTH - 1
    /\ vga[0] = Pre.buffer[1]
    /\ vga[0] # Pre.buffer[0]

\* the Writer a call returns is the one write_byte, or write_str, gives as a
\* whole: the two grains of the model agree
StepsAgree ==
    (frame.pc = "idle" /\ last.op # "none") =>
        Self = (IF last.op = "write_byte"
                THEN write_byte(Pre, last.arg[1])
                ELSE write_str(Pre, last.arg).self)

\* C17: the wrap is deferred.  A byte other than newline written into column
\* BUFFER_WIDTH-1 leaves the cursor at BUFFER_WIDTH, the full line on the last
\* row and no row moved.  A newline that finds the cursor at BUFFER_WIDTH
\* scrolls once, not twice: the full line is on the row above the last, right
\* under what was above it.  After a byte other than newline the cursor is in
\* 1 .. BUFFER_WIDTH; it is 0 only before the first call or after a newline.
C17_DeferredWrap ==
    /\ (frame.pc \in {"read", "write", "clear", "reset"} /\ frame.byte # 10) =>
          writer.column_position = BUFFER_WIDTH
    /\ (frame.pc = "idle") =>
        /\ (last.op = "write_byte" /\ last.arg[1] # 10) =>
              /\ writer.column_position \in 1 .. BUFFER_WIDTH
              /\ (Pre.column_position = BUFFER_WIDTH - 1) =>
                    /\ writer.column_position = BUFFER_WIDTH
                    /\ \A row \in 0 .. (BUFFER_HEIGHT - 2) : vga[row] = Pre.buffer[row]
                    /\ vga[BUFFER_HEIGHT - 1][BUFFER_WIDTH - 1] =
                           [ascii_character |-> last.arg[1], color_code |-> Pre.color_code]
                    /\ \A col \in 0 .. (BUFFER_WIDTH - 2) :
                           vga[BUFFER_HEIGHT - 1][col] = Pre.buffer[BUFFER_HEIGHT - 1][col]
                    /\ access.n = 1
        /\ (last.op = "write_byte" /\ last.arg[1] = 10 /\ Pre.column_position = BUFFER_WIDTH) =>
              /\ writer.column_position = 0
              /\ vga[BUFFER_HEIGHT - 2] = Pre.buffer[BUFFER_HEIGHT - 1]
              /\ vga[BUFFER_HEIGHT - 3] = Pre.buffer[BUFFER_HEIGHT - 2]
              /\ \A col \in Cols : vga[BUFFER_HEIGHT - 1][col] = Blank(Pre.color_code)
              /\ access.n = 2 * C15_Moves + BUFFER_WIDTH
        /\ (writer.column_position = 0) =>
              \/ last.op = "none"
              \/ (last.arg # <<>> /\ last.arg[Len(last.arg)] = 10)

\* a byte was written into the last column: the line is full, the cursor at
\* BUFFER_WIDTH, and nothing has moved
C17_Witness ==
    /\ frame.pc = "idle"
    /\ last.op = "write_byte"
    /\ last.arg = <<65>>
    /\ Pre.column_position = BUFFER_WIDTH - 1
    /\ writer.column_position = BUFFER_WIDTH
    /\ vga[0] = Pre.buffer[0]

\* a newline was written after a line of exactly BUFFER_WIDTH characters: the
\* line is on the row above the last, no cell of it blank
C17_WitnessNewline ==
    /\ frame.pc = "idle"
    /\ last.op = "write_byte"
    /\ last.arg = <<10>>
    /\ Pre.column_position = BUFFER_WIDTH
    /\ \A col \in Cols : Pre.buffer[BUFFER_HEIGHT - 1][col].ascii_character \in 65 .. 90
    /\ vga[BUFFER_HEIGHT - 2] = Pre.buffer[BUFFER_HEIGHT - 1]
    /\ writer.column_position = 0

====
